---- MODULE Spec2Model ----
(***************************************************************************)
(* Model of salt/states/tls_ca.py: the tls_ca state module, which keeps an *)
(* OpenSSL root CA present (created / replaced) or absent (certificate and *)
(* private key removed).                                                   *)
(*                                                                         *)
(* The state is the certificate store on disk together with a record of    *)
(* the state-function call that has just completed (and of the one before  *)
(* it).  Every call of present() or absent() is one action that runs the   *)
(* whole function body.  Python values are modelled as follows:            *)
(*   - a str is a tuple of one-character strings (expires, paths), or a    *)
(*     TLA+ string when only its identity / truthiness matters;            *)
(*   - None is the value NoneVal;                                          *)
(*   - a dict is a function; the empty dict is the empty function <<>>;    *)
(*   - a call either returns a value or terminates by an exception that    *)
(*     escapes to the caller (kind "raise").                               *)
(***************************************************************************)
EXTENDS Integers, Sequences, FiniteSets, TLC

VARIABLES files, cainfo, last, prev, ncalls, running

vars == <<files, cainfo, last, prev, ncalls, running>>

(***************************************************************************)
(* Bounds of the model.                                                    *)
(***************************************************************************)
\* number of state-function calls in one run of the model
MaxCalls == 2

(***************************************************************************)
(* Python values.                                                          *)
(***************************************************************************)
NoneVal == "<None>"

\* bool(v) for a str-or-None value
Truthy(v) == v # NoneVal /\ v # ""

EmptyDict == <<>>

Digit == {"0", "1", "2", "3", "4", "5", "6", "7", "8", "9"}

(***************************************************************************)
(* The names bound in the module's global namespace when a function of the *)
(* module runs: the imports and assignments of the module body, the        *)
(* module's functions, and the dunders the salt loader injects.            *)
(***************************************************************************)
ModuleGlobals ==
    {"absolute_import", "os", "re", "logging", "salt", "six", "log",
     "__virtualname__", "__virtual__", "_changes", "present", "absent",
     "__salt__", "__opts__"}

\* evaluation of a global name: it is bound, or the evaluation raises NameError
NameBound(n) == n \in ModuleGlobals

(***************************************************************************)
(* The two regular expressions of the expires check.  re.match anchors at  *)
(* the start; "$" matches at the end of the string and also just before a  *)
(* newline that ends the string.                                           *)
(***************************************************************************)
AtDollar(s, i) == i = Len(s) + 1 \/ (i = Len(s) /\ s[i] = "\n")

\* (1[0-2]|0[1-9])
IsMonth(a, b) ==
    \/ a = "1" /\ b \in {"0", "1", "2"}
    \/ a = "0" /\ b \in Digit \ {"0"}

\* (3[01]|0[1-9]|[12][0-9])
IsDay(a, b) ==
    \/ a = "3" /\ b \in {"0", "1"}
    \/ a = "0" /\ b \in Digit \ {"0"}
    \/ a \in {"1", "2"} /\ b \in Digit

\* ^([0-9]{4})-(1[0-2]|0[1-9])-(3[01]|0[1-9]|[12][0-9])$
MatchIsoDate(s) ==
    /\ Len(s) >= 10
    /\ \A i \in 1..4 : s[i] \in Digit
    /\ s[5] = "-"
    /\ IsMonth(s[6], s[7])
    /\ s[8] = "-"
    /\ IsDay(s[9], s[10])
    /\ AtDollar(s, 11)

\* ^([0-9]{4})-(1[0-2]|0[1-9])(3[01]|0[1-9]|[12][0-9])$
MatchLegacyDate(s) ==
    /\ Len(s) >= 9
    /\ \A i \in 1..4 : s[i] \in Digit
    /\ s[5] = "-"
    /\ IsMonth(s[6], s[7])
    /\ IsDay(s[8], s[9])
    /\ AtDollar(s, 10)

(***************************************************************************)
(* Inputs of the model.                                                    *)
(***************************************************************************)
Names == {"example.com"}

Fields == {"CN", "C", "ST", "L", "OU", "emailAddress"}

\* expires arguments: the default '', an ISO date, the single-separator
\* form, the compact form, an impossible month, an ISO date followed by a
\* newline, and free text
ExpDefault  == <<>>
ExpIso      == <<"2", "0", "3", "0", "-", "0", "5", "-", "2", "1">>
ExpOneSep   == <<"2", "0", "3", "0", "-", "0", "5", "2", "1">>
ExpCompact  == <<"2", "0", "3", "0", "0", "5", "2", "1">>
ExpMonth13  == <<"2", "0", "3", "0", "-", "1", "3", "-", "0", "1">>
ExpIsoNl    == <<"2", "0", "3", "0", "-", "0", "5", "-", "2", "1", "\n">>
ExpText     == <<"s", "o", "o", "n">>

\* every form above
ExpiresForms ==
    {ExpDefault, ExpIso, ExpOneSep, ExpCompact, ExpMonth13, ExpIsoNl, ExpText}

\* the expires arguments of the calls of the state machine: the default, a
\* date, and two strings that are no dates of either pattern
ExpiresInputs == {ExpDefault, ExpIso, ExpCompact, ExpText}

\* the keyword defaults of present()
DefaultSubject ==
    [f \in Fields |->
        CASE f = "CN" -> "localhost"
          [] f = "C" -> "US"
          [] f = "ST" -> "Utah"
          [] f = "L" -> "Salt Lake City"
          [] f = "OU" -> NoneVal
          [] f = "emailAddress" -> "xyz@pdq.net"]

\* desired subjects: CN / OU given by the caller, the rest left at the defaults
DesiredSubjects ==
    {[DefaultSubject EXCEPT !["CN"] = cn, !["OU"] = ou] :
        cn \in {"example.com", "changed.com"}, ou \in {NoneVal}}

\* the arguments of one present() call (fixmode and cacert_path left at
\* their defaults)
PresentArgs ==
    [expires : ExpiresInputs, subject : DesiredSubjects,
     bits : {"2048"}, O : {"SaltStack"}, digest : {"sha256"}]

\* not-after timestamps of certificates on disk, in seconds since the epoch:
\* 2030-05-20T00:00:00Z and 2030-05-21T00:00:00Z
NotAfters == {1905465600, 1905552000}

\* the subject a certificate carries for a desired subject: the fields with
\* a value; fields without one are no keys of the parsed subject
SubjectOf(d) == [f \in {g \in Fields : Truthy(d[g])} |-> d[f]]

\* parsed contents of the certificates that can be on disk
CertInfos ==
    {[subject |-> SubjectOf(d), not_after |-> t] :
        d \in DesiredSubjects, t \in NotAfters}

\* placeholder of cainfo for a name without a certificate file
NoInfo == [subject |-> EmptyDict, not_after |-> 0]

(***************************************************************************)
(* The certificate store: salt.modules.tls keeps a CA <name> as the        *)
(* certificate <cert_base>/<name>/<name>_ca_cert.crt and the key           *)
(* <name>_ca_cert.key beside it.  A path is a str: the directory and stem  *)
(* stand as one element each, the extension is spelled out.                *)
(***************************************************************************)
CertPath(name) == <<name, "_ca_cert", ".", "c", "r", "t">>

StoredKeyPath(name) == <<name, "_ca_cert", ".", "k", "e", "y">>

AllPaths == {CertPath(n) : n \in Names} \cup {StoredKeyPath(n) : n \in Names}

\* __salt__['tls.ca_exists'](name): the certificate file exists
CaExists(name, fs) == CertPath(name) \in fs

\* __salt__['tls.get_ca'](name): the path of the certificate
GetCa(name) == CertPath(name)

\* __salt__['tls.cert_info'](capath): subject and not_after of the
\* certificate stored under the path
CertInfo(capath, info) ==
    LET n == CHOOSE m \in Names : CertPath(m) = capath IN info[n]

\* the default expiry, "(today + 5478 days).isoformat()", for a run on
\* 2015-05-21
DefaultExpires == <<"2", "0", "3", "0", "-", "0", "5", "-", "2", "0">>

\* the not_after timestamp of a certificate made to expire on the date the
\* string expires spells: 2030-05-20 for the default, 2030-05-21 for the
\* dated inputs
NotAfterOf(expires) ==
    IF expires = DefaultExpires THEN 1905465600 ELSE 1905552000

\* what __salt__['tls.create_ca'](...) can do: change nothing (a falsy
\* return), write the certificate as requested, or write a certificate that
\* honours the request only in part (its CN is not the requested one)
CreateResults == {"nothing", "requested", "partial"}

\* the parsed contents of the certificate tls.create_ca writes
CreatedInfo(d, expires, cr) ==
    [subject |-> IF cr = "requested"
                 THEN SubjectOf(d)
                 ELSE SubjectOf([d EXCEPT !["CN"] = "localhost"]),
     not_after |-> NotAfterOf(expires)]

\* __salt__['tls.create_ca'](name, bits, expires, CN, ...): the change record
\* it returns and the store it leaves
CreateCa(name, d, expires, cr, fs, info) ==
    IF cr = "nothing"
    THEN [changes |-> EmptyDict, files |-> fs, cainfo |-> info]
    ELSE [changes |-> (name :> "Created CA"),
          files |-> fs \cup {CertPath(name), StoredKeyPath(name)},
          cainfo |-> [info EXCEPT ![name] = CreatedInfo(d, expires, cr)]]

\* one entry of the log of collaborator calls a state function makes
Called(op, name, path, replace) ==
    [op |-> op, name |-> name, path |-> path, replace |-> replace]

(***************************************************************************)
(* "set days based on expires", the block that opens both _changes() and   *)
(* present().  Each branch that accepts the string evaluates the global    *)
(* name datetime first; the last branch is the caller's own (ValueError in *)
(* _changes, a failed ret in present), reported here as kind "reject".     *)
(***************************************************************************)
\* variant: a string in neither form is not refused but read as the default
SetDaysDefaulting(expires) ==
    IF NameBound("datetime")
    THEN [kind |-> "ok",
          expires |-> IF expires = ExpDefault
                         \/ ~(MatchIsoDate(expires) \/ MatchLegacyDate(expires))
                      THEN DefaultExpires ELSE expires]
    ELSE [kind |-> "raise", expires |-> expires]

SetDays(expires) ==
    IF expires = ExpDefault
    THEN IF NameBound("datetime")
         THEN [kind |-> "ok", expires |-> DefaultExpires]
         ELSE [kind |-> "raise", expires |-> expires]
    ELSE IF MatchIsoDate(expires) \/ MatchLegacyDate(expires)
    THEN IF NameBound("datetime")
         THEN [kind |-> "ok", expires |-> expires]
         ELSE [kind |-> "raise", expires |-> expires]
    ELSE [kind |-> "reject", expires |-> expires]

(***************************************************************************)
(* _changes(): the changes a CA needs.  The value is                       *)
(*   [kind |-> "raise", exc]                an exception left the function *)
(*   [kind |-> "return", found |-> FALSE]   the function returned False    *)
(*   [kind |-> "return", found |-> TRUE, change |-> dict]                  *)
(* each with the log of the collaborator calls made.                       *)
(***************************************************************************)
\* the for loop over the subject attributes
SubjectChange(d, subject) ==
    [a \in {b \in Fields :
              \/ Truthy(d[b]) # (b \in DOMAIN subject /\ Truthy(subject[b]))
              \/ (b \in DOMAIN subject /\ d[b] # subject[b])} |-> d[a]]

\* "utcfromtimestamp(not_after).date() != expires": a date object never
\* equals a str, so the comparison is true for every pair
DateDiffersFromStr(not_after, expires) == TRUE

ChangesOf(name, d, expires, fs, info) ==
    LET days == SetDays(expires)
        exists == Called("tls.ca_exists", name, <<>>, FALSE)
        capath == GetCa(name)
        found == <<exists, Called("tls.get_ca", name, <<>>, FALSE),
                   Called("tls.cert_info", name, capath, FALSE)>>
        cert == CertInfo(capath, info)
        change == SubjectChange(d, cert.subject)
    IN  IF days.kind = "raise"
        THEN [kind |-> "raise", exc |-> "NameError", found |-> FALSE,
              change |-> EmptyDict, calls |-> <<>>]
        ELSE IF days.kind = "reject"
        THEN [kind |-> "raise", exc |-> "ValueError", found |-> FALSE,
              change |-> EmptyDict, calls |-> <<>>]
        ELSE IF ~CaExists(name, fs)
        THEN [kind |-> "return", exc |-> "", found |-> FALSE,
              change |-> EmptyDict, calls |-> <<exists>>]
        ELSE IF ~NameBound("datetime")
        THEN [kind |-> "raise", exc |-> "NameError", found |-> FALSE,
              change |-> EmptyDict, calls |-> found]
        ELSE [kind |-> "return", exc |-> "", found |-> TRUE,
              change |-> IF DateDiffersFromStr(cert.not_after, days.expires)
                         THEN change @@ ("expires" :> days.expires)
                         ELSE change,
              calls |-> found]

(***************************************************************************)
(* What a state function hands back to its caller, and what it leaves:     *)
(*   out.kind = "ret"    it returned the dict ret                          *)
(*   out.kind = "none"   it ran off its end and returned None              *)
(*   out.kind = "raise"  the exception out.exc escaped                     *)
(* calls is the log of collaborator calls, files / cainfo the store after. *)
(***************************************************************************)
Ret(name, changes, result, comment) ==
    [name |-> name, changes |-> changes, result |-> result, comment |-> comment]

Finish(kind, exc, ret, calls, fs, info) ==
    [out |-> [kind |-> kind, exc |-> exc, ret |-> ret],
     calls |-> calls, files |-> fs, cainfo |-> info]

\* a present() that compares the key size with the default before anything
\* else and reports the difference
PresentDiffingBits(name, a, test, cr, fs, info) ==
    Finish("ret", "",
           Ret(name, EmptyDict, IF a.bits = "2048" THEN "True" ELSE "None",
               <<"bits", a.bits>>),
           <<>>, fs, info)

(***************************************************************************)
(* present(name, bits, expires, CN, C, ST, L, O, OU, emailAddress, ...)    *)
(* with __opts__['test'] = test, run on the store (fs, info); cr is what   *)
(* tls.create_ca does if it is called.                                     *)
(***************************************************************************)
Present(name, a, test, cr, fs, info) ==
    LET ret == Ret(name, EmptyDict, "True",
                   <<"Root CA for {0} exists in the correct state", name>>)
        days == SetDays(a.expires)
        changes == ChangesOf(name, a.subject, days.expires, fs, info)
        made == CreateCa(name, a.subject, days.expires, cr, fs, info)
        replaced == changes.calls \o <<Called("tls.create_ca", name, <<>>, TRUE)>>
        created == changes.calls \o <<Called("tls.create_ca", name, <<>>, FALSE)>>
        after == ChangesOf(name, a.subject, days.expires, made.files, made.cainfo)
    IN  IF days.kind = "raise"
        THEN Finish("raise", "NameError", ret, <<>>, fs, info)
        ELSE IF days.kind = "reject"
        THEN Finish("ret", "",
                    Ret(name, EmptyDict, "False",
                        <<"Invalid expiration date: {0}", a.expires>>),
                    <<>>, fs, info)
        ELSE IF changes.kind = "raise"
        THEN Finish("raise", changes.exc, ret, changes.calls, fs, info)
        ELSE IF changes.found /\ changes.change # EmptyDict
        THEN \* if changes:
             IF test
             THEN Finish("ret", "",
                         Ret(name, EmptyDict, "None",
                             <<"The following user attributes are set to be changed:",
                               changes.change>>),
                         changes.calls, fs, info)
             ELSE IF made.changes = EmptyDict
             THEN Finish("ret", "",
                         Ret(name, made.changes, "False",
                             <<"Failed to replace CA Certificate {0}", name>>),
                         replaced, made.files, made.cainfo)
             ELSE IF after.kind = "raise"
             THEN Finish("raise", after.exc, ret, replaced \o after.calls,
                         made.files, made.cainfo)
             ELSE IF after.found /\ after.change # EmptyDict
             THEN Finish("ret", "",
                         Ret(name, made.changes, "False",
                             <<"These values could not be changed: {0}", after.change>>),
                         replaced \o after.calls, made.files, made.cainfo)
             ELSE Finish("ret", "",
                         Ret(name, made.changes, "True",
                             <<"Replaced CA Certificate {0}", name>>),
                         replaced \o after.calls, made.files, made.cainfo)
        ELSE IF ~changes.found
        THEN \* if changes is False:
             IF test
             THEN Finish("ret", "",
                         Ret(name, EmptyDict, "None",
                             <<"CA certificate {0} set to be added.", name>>),
                         changes.calls, fs, info)
             ELSE IF made.changes # EmptyDict
             THEN Finish("ret", "",
                         Ret(name, made.changes, "True",
                             <<"Created CA Certificate {0}", name>>),
                         created, made.files, made.cainfo)
             ELSE Finish("ret", "",
                         Ret(name, made.changes, "False",
                             <<"Failed to create CA Certificate {0}", name>>),
                         created, made.files, made.cainfo)
        ELSE \* changes == {}: no branch is taken and no return is reached
             Finish("none", "", ret, changes.calls, fs, info)

(***************************************************************************)
(* absent(name) with __opts__['test'] = test; denied are the paths whose   *)
(* removal the operating system refuses.                                   *)
(***************************************************************************)
\* os.remove(path): OSError if the file is missing or may not be removed
RemoveFails(path, denied, fs) == path \notin fs \/ path \in denied

\* variant: the slice also cuts the dot, "{0}key".format(capath[:-4])
KeyPathWithoutDot(capath) ==
    SubSeq(capath, 1, Len(capath) - 4) \o <<"k", "e", "y">>

\* "{0}key".format(capath[:-3])
KeyPathOf(capath) == SubSeq(capath, 1, Len(capath) - 3) \o <<"k", "e", "y">>

\* the store once the file of a path is gone
WithoutFile(path, fs, info) ==
    [files |-> fs \ {path},
     cainfo |-> [n \in Names |-> IF CertPath(n) = path THEN NoInfo ELSE info[n]]]

\* the branch of absent() taken in test mode when the CA exists
AbsentPlanned(name, fs, info) ==
    Finish("ret", "",
           Ret(name, EmptyDict, "None",
               <<"CA Certificate {0} set for removal", name>>),
           <<Called("tls.ca_exists", name, <<>>, FALSE)>>, fs, info)

\* the branch of absent() that removes the certificate and then the key
AbsentRemoval(name, denied, fs, info) ==
    LET ret == Ret(name, EmptyDict, "True", <<"", name>>)
        capath == GetCa(name)
        keypath == KeyPathOf(capath)
        rmcert == <<Called("tls.ca_exists", name, <<>>, FALSE),
                    Called("tls.get_ca", name, <<>>, FALSE),
                    Called("os.remove", name, capath, FALSE)>>
        rmkey == rmcert \o <<Called("os.remove", name, keypath, FALSE)>>
        nocert == WithoutFile(capath, fs, info)
        nokey == WithoutFile(keypath, nocert.files, nocert.cainfo)
    IN  IF RemoveFails(capath, denied, fs)
        THEN Finish("raise", "OSError", ret, rmcert, fs, info)
        ELSE IF RemoveFails(keypath, denied, nocert.files)
        THEN Finish("raise", "OSError", ret, rmkey, nocert.files, nocert.cainfo)
        ELSE Finish("ret", "",
                    Ret(name, (name :> "removed"), "True",
                        <<"Removed CA Certificate {0} Removed CA private key {0}",
                          name>>),
                    rmkey, nokey.files, nokey.cainfo)

\* the else branch of absent(): the CA does not exist
AbsentNotPresent(name, fs, info) ==
    Finish("ret", "",
           Ret(name, EmptyDict, "True",
               <<"CA Certificate {0} is not present.", name>>),
           <<Called("tls.ca_exists", name, <<>>, FALSE)>>, fs, info)

\* variant: the test flag is not consulted
AbsentIgnoringTest(name, test, denied, fs, info) ==
    IF CaExists(name, fs)
    THEN AbsentRemoval(name, denied, fs, info)
    ELSE AbsentNotPresent(name, fs, info)

\* variant: the existence of the CA is not consulted
AbsentUnchecked(name, test, denied, fs, info) ==
    IF test
    THEN AbsentPlanned(name, fs, info)
    ELSE AbsentRemoval(name, denied, fs, info)

Absent(name, test, denied, fs, info) ==
    IF CaExists(name, fs)
    THEN IF test
         THEN AbsentPlanned(name, fs, info)
         ELSE AbsentRemoval(name, denied, fs, info)
    ELSE AbsentNotPresent(name, fs, info)

(***************************************************************************)
(* The state machine.                                                      *)
(*   files, cainfo  the certificate store                                  *)
(*   last           the state-function call that has just completed        *)
(*   prev           the call before it, if nothing touched the store in    *)
(*                  between                                                *)
(*   ncalls         number of calls made                                   *)
(*   running        the present() calls running side by side, if any       *)
(* A call record keeps the arguments, the test flag, what the environment  *)
(* would do during the call (denied: the removals the operating system     *)
(* refuses; cr: what tls.create_ca does), the outcome, the log of          *)
(* collaborator calls and the store as it was before the call.             *)
(***************************************************************************)
NoArgs == [expires |-> <<>>, subject |-> EmptyDict, bits |-> "", O |-> "",
           digest |-> ""]

NoCall ==
    [op |-> "none", name |-> "", test |-> FALSE, args |-> NoArgs,
     denied |-> {}, cr |-> "nothing",
     out |-> [kind |-> "", exc |-> "", ret |-> Ret("", EmptyDict, "", <<"", "">>)],
     calls |-> <<>>,
     before |-> [files |-> {}, cainfo |-> [n \in Names |-> NoInfo]]]

\* no present() calls run side by side
NoRun == [proc |-> <<>>, sched |-> <<>>]

CallRecord(op, name, test, args, denied, cr, run) ==
    [op |-> op, name |-> name, test |-> test, args |-> args, denied |-> denied,
     cr |-> cr,
     out |-> run.out, calls |-> run.calls,
     before |-> [files |-> files, cainfo |-> cainfo]]

Init ==
    /\ files = {}
    /\ cainfo = [n \in Names |-> NoInfo]
    /\ last = NoCall
    /\ prev = NoCall
    /\ ncalls = 0
    /\ running = NoRun

\* the orchestration layer applies a tls_ca.present state
PresentCall ==
    /\ ncalls < MaxCalls
    /\ \E name \in Names, a \in PresentArgs, test \in BOOLEAN, cr \in CreateResults :
         LET run == Present(name, a, test, cr, files, cainfo) IN
           /\ files' = run.files
           /\ cainfo' = run.cainfo
           /\ last' = CallRecord("present", name, test, a, {}, cr, run)
    /\ prev' = last
    /\ ncalls' = ncalls + 1
    /\ UNCHANGED running

\* the orchestration layer applies a tls_ca.absent state
AbsentCall ==
    /\ ncalls < MaxCalls
    /\ \E name \in Names, test \in BOOLEAN :
       \E denied \in SUBSET {CertPath(name), StoredKeyPath(name)} :
         LET run == Absent(name, test, denied, files, cainfo) IN
           /\ files' = run.files
           /\ cainfo' = run.cainfo
           /\ last' = CallRecord("absent", name, test, NoArgs, denied, NoCall.cr, run)
    /\ prev' = last
    /\ ncalls' = ncalls + 1
    /\ UNCHANGED running

\* somebody else writes a CA into the store (salt-call tls.create_ca)
StoreWritten ==
    /\ \E name \in Names, ci \in CertInfos :
         /\ files' = files \cup {CertPath(name), StoredKeyPath(name)}
         /\ cainfo' = [cainfo EXCEPT ![name] = ci]
    /\ last' = NoCall
    /\ prev' = NoCall
    /\ UNCHANGED <<ncalls, running>>

\* somebody else removes a file of the store
FileLost ==
    /\ \E path \in files :
         LET gone == WithoutFile(path, files, cainfo) IN
           /\ files' = gone.files
           /\ cainfo' = gone.cainfo
    /\ last' = NoCall
    /\ prev' = NoCall
    /\ UNCHANGED <<ncalls, running>>

Next == PresentCall \/ AbsentCall \/ StoreWritten \/ FileLost

Spec == Init /\ [][Next]_vars

(***************************************************************************)
(* present() applied to expires strings of many shapes: the year 2030, a   *)
(* month and a day that may be out of range, each separator there or not,  *)
(* and possibly a newline at the end.                                      *)
(***************************************************************************)
YearDigits == <<"2", "0", "3", "0">>

Separators == {<<>>, <<"-">>}

MonthDigits == {<<"0", "5">>, <<"1", "2">>, <<"1", "3">>, <<"0", "0">>}

DayDigits == {<<"2", "1">>, <<"3", "1">>, <<"3", "2">>, <<"0", "0">>}

LineEnds == {<<>>, <<"\n">>}

ExpiresStrings ==
    ExpiresForms \cup
    {YearDigits \o s1 \o mm \o s2 \o dd \o nl :
        s1 \in Separators, mm \in MonthDigits, s2 \in Separators,
        dd \in DayDigits, nl \in LineEnds}

\* a tls_ca.present state with one of these strings as expires, the other
\* arguments at their defaults
PresentWithExpires ==
    /\ \E name \in Names, e \in ExpiresStrings, test \in BOOLEAN :
         LET a == [expires |-> e, subject |-> DefaultSubject, bits |-> "2048",
                   O |-> "SaltStack", digest |-> "sha256"]
             run == Present(name, a, test, "requested", files, cainfo)
         IN  /\ files' = run.files
             /\ cainfo' = run.cainfo
             /\ last' = CallRecord("present", name, test, a, {}, "requested", run)
    /\ prev' = NoCall
    /\ UNCHANGED <<ncalls, running>>

NextExpires == PresentWithExpires \/ StoreWritten

SpecExpires == Init /\ [][NextExpires]_vars

(***************************************************************************)
(* _changes() called on its own, on stores whose certificates carry the    *)
(* subject field OU in each of its shapes (no key, '', None, a text).  The *)
(* value the call returns is kept in out.ret: result is "False" for the    *)
(* value False and "dict" for a dict, which is then out.ret.changes.       *)
(***************************************************************************)
DiffExpires == {ExpDefault, ExpIso, ExpText}

DiffSubjects ==
    {[DefaultSubject EXCEPT !["CN"] = cn, !["OU"] = ou] :
        cn \in {"example.com", "changed.com"}, ou \in {NoneVal, "", "Ops"}}

ActualSubjects ==
    {SubjectOf(d) : d \in DiffSubjects} \cup
    {SubjectOf([d EXCEPT !["OU"] = NoneVal]) @@ ("OU" :> v) :
        d \in DiffSubjects, v \in {NoneVal, "", "Dev"}}

\* a certificate with one of these subjects is put on disk
CertificateIssued ==
    /\ \E name \in Names, s \in ActualSubjects, t \in NotAfters :
         /\ files' = files \cup {CertPath(name), StoredKeyPath(name)}
         /\ cainfo' = [cainfo EXCEPT ![name] = [subject |-> s, not_after |-> t]]
    /\ last' = NoCall
    /\ prev' = NoCall
    /\ UNCHANGED <<ncalls, running>>

\* _changes(name, expires=..., CN=..., OU=...) is called
DiffCall ==
    /\ \E name \in Names, e \in DiffExpires, d \in DiffSubjects :
         LET a == [expires |-> e, subject |-> d, bits |-> "2048",
                   O |-> "SaltStack", digest |-> "sha256"]
             c == ChangesOf(name, d, e, files, cainfo)
             run == IF c.kind = "raise"
                    THEN Finish("raise", c.exc, Ret(name, EmptyDict, "", <<"", "">>),
                                c.calls, files, cainfo)
                    ELSE Finish("ret", "",
                                Ret(name, c.change,
                                    IF c.found THEN "dict" ELSE "False", <<"", "">>),
                                c.calls, files, cainfo)
         IN  last' = CallRecord("_changes", name, FALSE, a, {}, "nothing", run)
    /\ prev' = NoCall
    /\ UNCHANGED <<files, cainfo, ncalls, running>>

NextDiff == DiffCall \/ CertificateIssued \/ FileLost

SpecDiff == Init /\ [][NextDiff]_vars

(***************************************************************************)
(* present() applied with the creation-only arguments bits, O and digest   *)
(* given by the caller.                                                    *)
(***************************************************************************)
AttributeArgs ==
    [expires : {ExpDefault, ExpIso},
     subject : {[DefaultSubject EXCEPT !["CN"] = "example.com"]},
     bits : {"2048", "4096"}, O : {"SaltStack", "Example Org"},
     digest : {"sha256", "sha512"}]

PresentWithAttributes ==
    /\ \E name \in Names, a \in AttributeArgs, test \in BOOLEAN :
         LET run == Present(name, a, test, "requested", files, cainfo) IN
           /\ files' = run.files
           /\ cainfo' = run.cainfo
           /\ last' = CallRecord("present", name, test, a, {}, "requested", run)
    /\ prev' = last
    /\ UNCHANGED <<ncalls, running>>

NextAttributes == PresentWithAttributes \/ StoreWritten

SpecAttributes == Init /\ [][NextAttributes]_vars

(***************************************************************************)
(* Two present() calls for the same name running side by side on a store   *)
(* without the CA; the module takes no lock.  A call advances in the steps *)
(* between which the other call can act:                                   *)
(*   "start"   set days and the first _changes() (lines 161-187); a call   *)
(*             that raises, rejects its expires, runs in test mode or      *)
(*             finds the CA as desired ends here, as Present() says        *)
(*   "apply"   tls.create_ca (lines 197-217 / 242-261)                     *)
(*   "verify"  the _changes() after a replace (lines 218-234)              *)
(* running.sched is the order in which the calls have taken their steps.   *)
(***************************************************************************)
Procs == {1, 2}

NoChanges ==
    [kind |-> "", exc |-> "", found |-> FALSE, change |-> EmptyDict, calls |-> <<>>]

RaceArgs ==
    [expires : {ExpDefault, ExpIso, ExpText},
     subject : {[DefaultSubject EXCEPT !["CN"] = "example.com"]},
     bits : {"2048"}, O : {"SaltStack"}, digest : {"sha256"}]

StartRecords ==
    {[pc |-> "start", name |-> name, a |-> a, test |-> test, cr |-> cr,
      changes |-> NoChanges, made |-> EmptyDict, out |-> NoCall.out,
      calls |-> <<>>] :
        name \in Names, a \in RaceArgs, test \in BOOLEAN, cr \in CreateResults}

InitRace ==
    /\ files = {}
    /\ cainfo = [n \in Names |-> NoInfo]
    /\ last = NoCall
    /\ prev = NoCall
    /\ ncalls = 0
    /\ running \in {[proc |-> f, sched |-> <<>>] : f \in [Procs -> StartRecords]}

\* the record of a call that has ended with what fin says
Ended(r, fin) == [r EXCEPT !.pc = "done", !.out = fin.out, !.calls = fin.calls]

\* the call p takes its next step
RaceStep(p) ==
    LET r == running.proc[p]
        days == SetDays(r.a.expires)
        changes == ChangesOf(r.name, r.a.subject, days.expires, files, cainfo)
        applies == /\ days.kind = "ok" /\ changes.kind = "return" /\ ~r.test
                   /\ (~changes.found \/ changes.change # EmptyDict)
        made == CreateCa(r.name, r.a.subject, days.expires, r.cr, files, cainfo)
        called == r.calls \o <<Called("tls.create_ca", r.name, <<>>, r.changes.found)>>
        seen == r.calls \o changes.calls
        none == Ret(r.name, EmptyDict, "True", <<"", "">>)
        step ==
          CASE r.pc = "start" ->
                 IF applies
                 THEN [rec |-> [r EXCEPT !.pc = "apply", !.changes = changes,
                                         !.calls = changes.calls],
                       files |-> files, cainfo |-> cainfo]
                 ELSE LET fin == Present(r.name, r.a, r.test, r.cr, files, cainfo)
                      IN  [rec |-> Ended(r, fin), files |-> fin.files,
                           cainfo |-> fin.cainfo]
            [] r.pc = "apply" ->
                 [rec |->
                    IF ~r.changes.found
                    THEN Ended(r, Finish("ret", "",
                             IF made.changes # EmptyDict
                             THEN Ret(r.name, made.changes, "True",
                                      <<"Created CA Certificate {0}", r.name>>)
                             ELSE Ret(r.name, made.changes, "False",
                                      <<"Failed to create CA Certificate {0}", r.name>>),
                             called, files, cainfo))
                    ELSE IF made.changes = EmptyDict
                    THEN Ended(r, Finish("ret", "",
                             Ret(r.name, made.changes, "False",
                                 <<"Failed to replace CA Certificate {0}", r.name>>),
                             called, files, cainfo))
                    ELSE [r EXCEPT !.pc = "verify", !.made = made.changes,
                                   !.calls = called],
                  files |-> made.files, cainfo |-> made.cainfo]
            [] r.pc = "verify" ->
                 [rec |->
                    IF changes.kind = "raise"
                    THEN Ended(r, Finish("raise", changes.exc, none, seen, files, cainfo))
                    ELSE IF changes.found /\ changes.change # EmptyDict
                    THEN Ended(r, Finish("ret", "",
                             Ret(r.name, r.made, "False",
                                 <<"These values could not be changed: {0}",
                                   changes.change>>),
                             seen, files, cainfo))
                    ELSE Ended(r, Finish("ret", "",
                             Ret(r.name, r.made, "True",
                                 <<"Replaced CA Certificate {0}", r.name>>),
                             seen, files, cainfo)),
                  files |-> files, cainfo |-> cainfo]
    IN  /\ running.proc[p].pc # "done"
        /\ running' = [proc |-> [running.proc EXCEPT ![p] = step.rec],
                       sched |-> Append(running.sched, p)]
        /\ files' = step.files
        /\ cainfo' = step.cainfo
        /\ UNCHANGED <<last, prev, ncalls>>

NextRace == \E p \in Procs : RaceStep(p)

SpecRace == InitRace /\ [][NextRace]_vars

(***************************************************************************)
(* Vocabulary of the properties.                                           *)
(***************************************************************************)
\* expiry inputs of the documented forms
ValidExpiries == {ExpDefault, ExpIso}

\* expiry inputs that are refused
RejectedExpiries == {ExpCompact, ExpText}

IsCall(c) == c.op \in {"present", "absent"}

\* the backend reported the CA of call c to exist when c started
ExistedBefore(c) == CertPath(c.name) \in c.before.files

Returned(c) == c.out.kind = "ret"

Says(c, text) == Returned(c) /\ c.out.ret.comment[1] = text

\* the tls.create_ca calls / the os.remove calls of a log, in order
CreateCalls(calls) == SelectSeq(calls, LAMBDA e : e.op = "tls.create_ca")

RemoveCalls(calls) == SelectSeq(calls, LAMBDA e : e.op = "os.remove")

\* calendar day (days since the epoch) of the desired expiry and of a
\* not_after timestamp
ExpiryDay(a) == IF a.expires = ExpDefault THEN 22054 ELSE 22055

DayOf(not_after) == not_after \div 86400

\* the certificate ci carries exactly the desired subject and expiry date
MatchesProfile(ci, a) ==
    /\ ci.subject = SubjectOf(a.subject)
    /\ DayOf(ci.not_after) = ExpiryDay(a)

\* present(args) found a CA that differs from the desired profile
Diverged(c) ==
    /\ c.op = "present"
    /\ c.args.expires \in ValidExpiries
    /\ ExistedBefore(c)
    /\ ~MatchesProfile(c.before.cainfo[c.name], c.args)

\* the store is as call c found it
StoreUntouched(c) == files = c.before.files /\ cainfo = c.before.cainfo

\* the part of a path up to its last dot, followed by the extension ext
ReplaceExtension(path, ext) ==
    LET dot == CHOOSE i \in DOMAIN path :
                 path[i] = "." /\ \A j \in DOMAIN path : path[j] = "." => j <= i
    IN  SubSeq(path, 1, dot) \o ext

KeyFileOf(name) == ReplaceExtension(CertPath(name), <<"k", "e", "y">>)

(***************************************************************************)
(* C1.  Idempotence of present: with no CA, dry-run off and a backend that *)
(* writes exactly what is requested, a first present(args) creates the CA  *)
(* and a second present with the same arguments, nothing having touched    *)
(* the store in between, calls tls.create_ca zero times.                   *)
(***************************************************************************)
C1_SecondPresentCreatesNothing ==
    ( /\ prev.op = "present" /\ last.op = "present"
      /\ prev.name = last.name /\ prev.args = last.args
      /\ ~prev.test /\ ~last.test
      /\ prev.args.expires \in ValidExpiries
      /\ ~ExistedBefore(prev)
      /\ prev.cr = "requested" )
    => /\ Len(CreateCalls(prev.calls)) = 1
       /\ ExistedBefore(last)
       /\ Len(CreateCalls(last.calls)) = 0

(***************************************************************************)
(* C2.  Matches: a present call with a valid expiry that finds the CA in   *)
(* the desired state returns result True, no changes and the comment       *)
(* "... exists in the correct state", with test on or off.                 *)
(***************************************************************************)
C2_MatchReportsCorrectState ==
    ( /\ last.op = "present"
      /\ last.args.expires \in ValidExpiries
      /\ ExistedBefore(last)
      /\ MatchesProfile(last.before.cainfo[last.name], last.args) )
    => last.out = [kind |-> "ret", exc |-> "",
                   ret |-> Ret(last.name, EmptyDict, "True",
                               <<"Root CA for {0} exists in the correct state",
                                 last.name>>)]

(***************************************************************************)
(* C3.  Dry-run never mutates: a present or absent call with test on makes *)
(* no tls.create_ca call and no os.remove call, and leaves the store as it *)
(* found it, whether the CA is absent, present and matching, or present    *)
(* and diverging.                                                          *)
(***************************************************************************)
C3_DryRunNeverMutates ==
    (IsCall(last) /\ last.test)
    => /\ CreateCalls(last.calls) = <<>>
       /\ RemoveCalls(last.calls) = <<>>
       /\ StoreUntouched(last)

\* a dry-run absent on an existing CA, after a dry-run present on it
C3_Witness ==
    /\ last.op = "absent" /\ last.test /\ ExistedBefore(last)
    /\ prev.op = "present" /\ prev.test /\ ExistedBefore(prev)
    /\ prev.args.expires \in ValidExpiries

(***************************************************************************)
(* C4.  Absent state, dry-run off: present calls tls.create_ca exactly     *)
(* once, without replace; it returns result True with "Created ..." if and *)
(* only if the change record is non-empty, and result False with "Failed   *)
(* to create ..." otherwise.                                               *)
(***************************************************************************)
C4_CreatesOnceWhenAbsent ==
    ( /\ last.op = "present" /\ ~last.test
      /\ last.args.expires \in ValidExpiries
      /\ ~ExistedBefore(last) )
    => /\ Returned(last)
       /\ CreateCalls(last.calls)
            = <<Called("tls.create_ca", last.name, <<>>, FALSE)>>
       /\ (last.out.ret.result = "True"
              /\ Says(last, "Created CA Certificate {0}"))
            <=> (last.out.ret.changes # EmptyDict)
       /\ (last.out.ret.changes = EmptyDict)
            => (last.out.ret.result = "False"
                  /\ Says(last, "Failed to create CA Certificate {0}"))

(***************************************************************************)
(* C5.  Verified replace: the CA exists and diverges, dry-run is off, and  *)
(* tls.create_ca(replace=True) writes exactly the desired certificate;     *)
(* then present returns result True and "Replaced ...".                    *)
(***************************************************************************)
C5_VerifiedReplaceSucceeds ==
    (Diverged(last) /\ ~last.test /\ last.cr = "requested")
    => /\ Returned(last)
       /\ last.out.ret.result = "True"
       /\ Says(last, "Replaced CA Certificate {0}")

(***************************************************************************)
(* C6.  Partial failure: tls.create_ca(replace=True) reports changes but   *)
(* the certificate then on disk still differs; present inspects the store  *)
(* again after the create and returns result False with a comment that     *)
(* lists exactly the fields that still differ.                             *)
(***************************************************************************)
\* the fields of the desired subject d the subject on disk does not meet
ResidualFields(d, subject) ==
    {f \in Fields :
       \/ Truthy(d[f]) # (f \in DOMAIN subject /\ Truthy(subject[f]))
       \/ (Truthy(d[f]) /\ f \in DOMAIN subject /\ d[f] # subject[f])}

C6_PartialReplaceListsResidue ==
    ( /\ Diverged(last) /\ ~last.test /\ last.cr = "partial"
      /\ ResidualFields(last.args.subject, cainfo[last.name].subject) # {} )
    => /\ Returned(last)
       /\ last.out.ret.result = "False"
       /\ Says(last, "These values could not be changed: {0}")
       /\ DOMAIN last.out.ret.comment[2]
            = ResidualFields(last.args.subject, cainfo[last.name].subject)
       /\ \E i \in DOMAIN last.calls :
            /\ last.calls[i].op = "tls.create_ca"
            /\ \E j \in DOMAIN last.calls :
                 j > i /\ last.calls[j].op = "tls.cert_info"

(***************************************************************************)
(* C7.  Failed replace: the CA exists and diverges, dry-run is off and     *)
(* tls.create_ca(replace=True) returns an empty change record; present     *)
(* returns result False with "Failed to replace ..." and makes no call     *)
(* after the create.                                                       *)
(***************************************************************************)
C7_FailedReplaceIsTerminal ==
    (Diverged(last) /\ ~last.test /\ last.cr = "nothing")
    => /\ Returned(last)
       /\ last.out.ret.result = "False"
       /\ Says(last, "Failed to replace CA Certificate {0}")
       /\ Len(last.calls) > 0
       /\ last.calls[Len(last.calls)]
            = Called("tls.create_ca", last.name, <<>>, TRUE)
       /\ Len(CreateCalls(last.calls)) = 1

(***************************************************************************)
(* C8.  Invalid expiry is input validation: for a refused expiry string    *)
(* present returns result False, no changes and a comment carrying the     *)
(* string, makes no collaborator call and leaves the store alone; the      *)
(* outcome is the same with test on and with test off.                     *)
(***************************************************************************)
C8_InvalidExpiryFailsBeforeBackend ==
    /\ (last.op = "present" /\ last.args.expires \in RejectedExpiries)
       => /\ last.out = [kind |-> "ret", exc |-> "",
                         ret |-> Ret(last.name, EmptyDict, "False",
                                     <<"Invalid expiration date: {0}",
                                       last.args.expires>>)]
          /\ last.calls = <<>>
          /\ StoreUntouched(last)
    /\ ( /\ prev.op = "present" /\ last.op = "present"
         /\ prev.name = last.name
         /\ prev.args.expires = last.args.expires
         /\ last.args.expires \in RejectedExpiries )
       => prev.out = last.out

\* the same refused string in normal mode and then in test mode, on a
\* store that holds the CA
C8_Witness ==
    /\ prev.op = "present" /\ last.op = "present"
    /\ prev.args = last.args
    /\ last.args.expires = ExpCompact
    /\ ~prev.test /\ last.test
    /\ ExistedBefore(last)

(***************************************************************************)
(* C9.  Removal: the CA exists and dry-run is off.  absent(name) removes   *)
(* the certificate file and then the key file, whose path is the           *)
(* certificate's with the extension replaced by "key"; afterwards neither  *)
(* file exists, result is True and changes is {name: "removed"}.           *)
(***************************************************************************)
RemovalCarriedOut(c) ==
    /\ RemoveCalls(c.calls)
         = <<Called("os.remove", c.name, CertPath(c.name), FALSE),
             Called("os.remove", c.name, KeyFileOf(c.name), FALSE)>>
    /\ CertPath(c.name) \notin files
    /\ KeyFileOf(c.name) \notin files
    /\ Returned(c)
    /\ c.out.ret.result = "True"
    /\ c.out.ret.changes = (c.name :> "removed")

RemovalsPermitted(c) ==
    /\ CertPath(c.name) \notin c.denied
    /\ KeyFileOf(c.name) \in c.before.files
    /\ KeyFileOf(c.name) \notin c.denied

NothingToRemove(c) ==
    /\ c.out = [kind |-> "ret", exc |-> "",
                ret |-> Ret(c.name, EmptyDict, "True",
                            <<"CA Certificate {0} is not present.", c.name>>)]
    /\ c.calls = <<Called("tls.ca_exists", c.name, <<>>, FALSE)>>

C10_AbsentTwiceIsNoOp ==
    /\ (last.op = "absent" /\ ~ExistedBefore(last))
       => (NothingToRemove(last) /\ StoreUntouched(last))
    /\ ( /\ prev.op = "absent" /\ last.op = "absent"
         /\ prev.name = last.name
         /\ Returned(prev)
         /\ prev.out.ret.changes = (prev.name :> "removed") )
       => (NothingToRemove(last) /\ StoreUntouched(last))

\* a second absent, in normal mode, right after a removal
C10_Witness ==
    /\ prev.op = "absent" /\ last.op = "absent"
    /\ prev.name = last.name
    /\ prev.out.ret.changes = (prev.name :> "removed")
    /\ ~last.test

(***************************************************************************)
(* C11.  Errors become outcomes: a failure of a collaborator during a call *)
(* is handed to the caller as an Outcome with result False and no error    *)
(* escapes; when the certificate was removed and the removal of the key    *)
(* failed, the failed Outcome is returned with the certificate left        *)
(* removed.  Stated for the removals of absent().                          *)
(***************************************************************************)
\* an os.remove of the absent call c fails
RemovalFails(c) ==
    /\ c.op = "absent" /\ ~c.test /\ ExistedBefore(c)
    /\ ~RemovalsPermitted(c)

C11_RemovalFailureIsFailedOutcome ==
    RemovalFails(last)
    => /\ Returned(last)
       /\ last.out.ret.result = "False"
       /\ (CertPath(last.name) \notin last.denied)
            => CertPath(last.name) \notin files

(***************************************************************************)
(* C12.  Accepted expiry formats: a non-empty expires is accepted by       *)
(* present (no "Invalid expiration date" outcome) if and only if it is a   *)
(* date written YYYY-MM-DD or YYYYMMDD; every other string, YYYY-MMDD      *)
(* included, gets the invalid-expiry outcome.                              *)
(***************************************************************************)
DigitValue ==
    ("0" :> 0) @@ ("1" :> 1) @@ ("2" :> 2) @@ ("3" :> 3) @@ ("4" :> 4) @@
    ("5" :> 5) @@ ("6" :> 6) @@ ("7" :> 7) @@ ("8" :> 8) @@ ("9" :> 9)

AllDigits(s) == \A i \in DOMAIN s : s[i] \in DOMAIN DigitValue

\* the two characters at i, i+1 of s spell a number in lo..hi
SpellsIn(s, i, lo, hi) ==
    /\ s[i] \in DOMAIN DigitValue /\ s[i + 1] \in DOMAIN DigitValue
    /\ 10 * DigitValue[s[i]] + DigitValue[s[i + 1]] \in lo..hi

IsDocumentedDate(s) ==
    \/ /\ Len(s) = 10
       /\ AllDigits(SubSeq(s, 1, 4))
       /\ s[5] = "-" /\ s[8] = "-"
       /\ SpellsIn(s, 6, 1, 12) /\ SpellsIn(s, 9, 1, 31)
    \/ /\ Len(s) = 8
       /\ AllDigits(SubSeq(s, 1, 4))
       /\ SpellsIn(s, 5, 1, 12) /\ SpellsIn(s, 7, 1, 31)

C12_AcceptsIsoAndCompactOnly ==
    (last.op = "present" /\ last.args.expires # <<>>)
    => (Says(last, "Invalid expiration date: {0}")
          <=> ~IsDocumentedDate(last.args.expires))

(***************************************************************************)
(* C13.  Default expiry: a present call with the empty expires normalizes  *)
(* it without an error to the date 5478 days after the day of the run,     *)
(* and that date is what the diff compares and what create is handed: on   *)
(* an empty store, with test off and a backend that does what it is asked, *)
(* the certificate written expires on that day.                            *)
(***************************************************************************)
DefaultExpiryCall(c) ==
    /\ c.op = "present"
    /\ c.args.expires = ExpDefault

C13_DefaultExpiryIsFifteenYears ==
    DefaultExpiryCall(last)
    => /\ last.out.kind # "raise"
       /\ (~last.test /\ ~ExistedBefore(last) /\ last.cr = "requested")
            => /\ CaExists(last.name, files)
               /\ DayOf(cainfo[last.name].not_after) = ExpiryDay(last.args)

(***************************************************************************)
(* C14.  Diff of an exact match is empty: when the CA exists, every        *)
(* subject field has the same value on the desired and the actual side or  *)
(* is unset on both, and the certificate expires on the desired calendar   *)
(* day, _changes returns the empty dict (no key expires in it).            *)
(***************************************************************************)
IsDiff(c) == c.op = "_changes" /\ c.args.expires \in ValidExpiries

SameOrUnset(f, d, subject) ==
    \/ f \in DOMAIN subject /\ d[f] = subject[f]
    \/ f \notin DOMAIN subject /\ d[f] = NoneVal

ExactMatch(c) ==
    /\ ExistedBefore(c)
    /\ \A f \in Fields : SameOrUnset(f, c.args.subject, c.before.cainfo[c.name].subject)
    /\ DayOf(c.before.cainfo[c.name].not_after) = ExpiryDay(c.args)

C14_ExactMatchHasEmptyDiff ==
    (IsDiff(last) /\ ExactMatch(last))
    => /\ Returned(last)
       /\ last.out.ret.result = "dict"
       /\ last.out.ret.changes = EmptyDict

(***************************************************************************)
(* C15.  Presence-vs-absence semantics of the diff: on an existing CA a    *)
(* subject field is in the dict _changes returns if and only if exactly    *)
(* one side is set and non-empty, or both are and the texts differ; a      *)
(* field unset or empty on both sides is not in it; every entry maps the   *)
(* field to the desired value.                                             *)
(***************************************************************************)
SetAndNonEmpty(f, m) == f \in DOMAIN m /\ m[f] # NoneVal /\ m[f] # ""

ShouldFlag(f, d, subject) ==
    \/ SetAndNonEmpty(f, d) # SetAndNonEmpty(f, subject)
    \/ SetAndNonEmpty(f, d) /\ SetAndNonEmpty(f, subject) /\ d[f] # subject[f]

C15_FlagsExactlyTheFieldsThatDiffer ==
    (IsDiff(last) /\ ExistedBefore(last))
    => /\ Returned(last)
       /\ \A f \in Fields :
            /\ f \in DOMAIN last.out.ret.changes
                 <=> ShouldFlag(f, last.args.subject,
                                last.before.cainfo[last.name].subject)
            /\ f \in DOMAIN last.out.ret.changes
                 => last.out.ret.changes[f] = last.args.subject[f]

(***************************************************************************)
(* C16.  Absent signal: whenever tls.ca_exists reports the CA missing,     *)
(* _changes returns False, not a dict, whatever the desired profile, and   *)
(* calls neither tls.get_ca nor tls.cert_info.                             *)
(***************************************************************************)
C16_MissingCaGivesAbsentSignal ==
    (IsDiff(last) /\ ~ExistedBefore(last))
    => /\ Returned(last)
       /\ last.out.ret.result = "False"
       /\ \A i \in DOMAIN last.calls :
            last.calls[i].op \notin {"tls.get_ca", "tls.cert_info"}

(***************************************************************************)
(* C17.  Non-interference of creation-only attributes: two present calls   *)
(* on the same store that differ only in bits, digest or O end the same    *)
(* way and make the same backend calls, so a difference in those           *)
(* arguments alone never makes one of them replace an existing CA.         *)
(***************************************************************************)
CreationOnly(a) == <<a.bits, a.O, a.digest>>

DifferOnlyInCreationAttributes(c1, c2) ==
    /\ c1.op = "present" /\ c2.op = "present"
    /\ c1.name = c2.name /\ c1.test = c2.test /\ c1.cr = c2.cr
    /\ c1.args.expires = c2.args.expires
    /\ c1.args.subject = c2.args.subject
    /\ c1.before = c2.before
    /\ CreationOnly(c1.args) # CreationOnly(c2.args)

RaceDone == \A p \in Procs : running.proc[p].pc = "done"

\* each call has taken a step before either takes another
Lockstep ==
    /\ Len(running.sched) >= 2
    /\ running.sched[1] # running.sched[2]

\* one call takes all its steps before the other takes any
Serialized ==
    \A i, j \in DOMAIN running.sched :
      (i < j /\ running.sched[i] # running.sched[1])
      => running.sched[j] # running.sched[1]

RealRun(p) ==
    /\ ~running.proc[p].test
    /\ running.proc[p].a.expires \in ValidExpiries

ObservedAbsent(p) ==
    /\ running.proc[p].changes.kind = "return"
    /\ ~running.proc[p].changes.found

CreatedAfresh(p) ==
    \E i \in DOMAIN running.proc[p].calls :
      /\ running.proc[p].calls[i].op = "tls.create_ca"
      /\ ~running.proc[p].calls[i].replace

C18_UnlockedCallsBothCreate ==
    /\ (RaceDone /\ Lockstep /\ \A p \in Procs : RealRun(p))
       => \A p \in Procs : ObservedAbsent(p) /\ CreatedAfresh(p)
    /\ Serialized => Cardinality({p \in Procs : CreatedAfresh(p)}) <= 1

(***************************************************************************)
(* C20.  Every present call with a valid expiry, and every absent call     *)
(* that returns normally, returns a well-formed outcome (the name, a       *)
(* result of True, False or None, a changes dict and a comment), on every  *)
(* path and with test on or off; the changes dict is non-empty only when   *)
(* tls.create_ca reported changes or a removal was carried out.            *)
(***************************************************************************)
WellFormedOutcome(c) ==
    /\ Returned(c)
    /\ c.out.ret.name = c.name
    /\ c.out.ret.result \in {"True", "False", "None"}
    /\ c.out.ret.comment[1] # ""

ChangesAccountedFor(c) ==
    c.out.ret.changes # EmptyDict
    => \/ c.op = "present" /\ CreateCalls(c.calls) # <<>> /\ c.cr # "nothing"
       \/ c.op = "absent" /\ RemovalCarriedOut(c)

OwesOutcome(c) ==
    \/ c.op = "present" /\ c.args.expires \in ValidExpiries
    \/ c.op = "absent" /\ c.out.kind # "raise"

C20_EveryPathReturnsAnOutcome ==
    OwesOutcome(last) => WellFormedOutcome(last) /\ ChangesAccountedFor(last)

====
